---------------------------- MODULE Spec2Model ----------------------------
(***************************************************************************)
(* A model of utils.py, the helper module of the incremental-learning      *)
(* experiments: one-hot encoding with optional label remapping, the        *)
(* metrics writer, the subset join, the pairwise cosine-distance loss and  *)
(* the cosine-normalization layer.                                         *)
(*                                                                         *)
(* The helpers are independent of each other, so each group has its own    *)
(* specification (SpecEnc, SpecJoin, SpecMetrics, SpecDist, SpecLayer)     *)
(* over its own variable; the variables of the other groups stay idle.     *)
(***************************************************************************)
EXTENDS Integers, Sequences, FiniteSets, TLC

VARIABLES
    enc,      \* the last call of _one_hot_encode / map_to_outputs
    join,     \* the last call of joinSubsets
    files,    \* the file system: file name -> content
    wm,       \* the last call of writeMetrics
    hist,     \* per (method, seed): what the calls so far did to its file
    dist,     \* the last call of L_G_dist_scalar / L_G_dist
    layer,    \* the CosineNormalizationLayer object
    fwd       \* the call of forward made on the layer as it is now, if any

vars == <<enc, join, files, wm, hist, dist, layer, fwd>>

None == "None"
Idle == [op |-> "idle"]

(***************************************************************************)
(* map_to_outputs, _one_hot_encode                                         *)
(*                                                                         *)
(* A labels argument is a Python int, a torch tensor or a Python list:     *)
(* [kind, v] with v the sequence of its integers (one integer for an int). *)
(* reverse_index is None or an object whose getNodes maps a tensor of raw  *)
(* labels to the tensor of their output indices.                           *)
(***************************************************************************)
MaxClasses == 2
MaxLabels == 2

Labels == (0 - (MaxClasses + 1))..(MaxClasses + 1)
LabelSeqs == UNION {[1..n -> Labels] : n \in 0..MaxLabels}
LabelArgs ==
    {[kind |-> "int", v |-> <<l>>] : l \in Labels}
    \cup {[kind |-> k, v |-> t] : k \in {"tensor", "list"}, t \in LabelSeqs}

NoReverseIndex == [present |-> FALSE, nodes |-> <<>>]
ReverseIndexes ==
    {NoReverseIndex}
    \cup {[present |-> TRUE, nodes |-> [l \in Labels |-> l + s]] : s \in {0 - 1, 1}}
    \cup {[present |-> TRUE, nodes |-> [l \in Labels |-> 0 - l]]}

\* reverse_index.getNodes(labels) on a tensor of labels
getNodes(reverse_index, t) == [i \in 1..Len(t) |-> reverse_index.nodes[t[i]]]

NoValue == [kind |-> "None", v |-> <<>>]

\* [ret, calls]: the value returned and the number of getNodes calls made
MapTypeFirst(labels, reverse_index) ==
    IF labels.kind = "int"
    THEN IF reverse_index.present
         THEN [ret |-> [kind |-> "int", v |-> getNodes(reverse_index, labels.v)], calls |-> 1]
         ELSE [ret |-> NoValue, calls |-> 0]
    ELSE IF ~reverse_index.present THEN [ret |-> labels, calls |-> 0]
    ELSE IF labels.kind = "tensor"
    THEN [ret |-> [kind |-> "tensor", v |-> getNodes(reverse_index, labels.v)], calls |-> 1]
    ELSE [ret |-> NoValue, calls |-> 0]

map_to_outputs(labels, reverse_index) ==
    IF ~reverse_index.present THEN [ret |-> labels, calls |-> 0]
    ELSE IF labels.kind = "int"
    THEN [ret |-> [kind |-> "int", v |-> getNodes(reverse_index, labels.v)], calls |-> 1]
    ELSE IF labels.kind = "tensor"
    THEN [ret |-> [kind |-> "tensor", v |-> getNodes(reverse_index, labels.v)], calls |-> 1]
    ELSE [ret |-> NoValue, calls |-> 0]

\* a rows x cols matrix; entry (i, j), 0-based, is m[i + 1][j + 1]
Zeros(rows, cols) == [rows |-> rows, cols |-> cols,
                      m |-> [i \in 1..rows |-> [j \in 1..cols |-> 0]]]
NoMatrix == [rows |-> 0 - 1, cols |-> 0 - 1, m |-> <<>>]

\* enconded[i, l] = 1, with torch's indexing: l in [-cols, cols) is in range
\* and a negative l counts from the last column
InRange(l, cols) == l >= 0 - cols /\ l < cols
Column(l, cols) == IF l < 0 THEN l + cols ELSE l
SetOne(M, i, l) == [M EXCEPT !.m[i + 1][Column(l, M.cols) + 1] = 1]

\* the loop over enumerate(labels), from row k on: the matrix, or NoMatrix
\* when an index is out of range
RECURSIVE Fill(_, _, _)
Fill(M, mapped, k) ==
    IF k > Len(mapped) THEN M
    ELSE IF k > M.rows \/ ~InRange(mapped[k], M.cols) THEN NoMatrix
    ELSE Fill(SetOne(M, k - 1, mapped[k]), mapped, k + 1)

\* [err, out]: the exception raised, if any, and the matrix returned
RECURSIVE FillChecked(_, _, _)
FillChecked(M, mapped, k) ==
    IF k > Len(mapped) THEN M
    ELSE IF mapped[k] >= 0 /\ mapped[k] < M.cols
    THEN FillChecked(SetOne(M, k - 1, mapped[k]), mapped, k + 1)
    ELSE FillChecked(M, mapped, k + 1)

EncodeSkipping(labels, n_classes, reverse_index) ==
    IF labels.kind = "int" THEN [err |-> "TypeError", out |-> NoMatrix]
    ELSE IF n_classes < 0 THEN [err |-> "RuntimeError", out |-> NoMatrix]
    ELSE LET mapped == map_to_outputs(labels, reverse_index).ret
         IN  IF mapped = NoValue THEN [err |-> "TypeError", out |-> NoMatrix]
             ELSE [err |-> None,
                   out |-> FillChecked(Zeros(Len(labels.v), n_classes), mapped.v, 1)]

EncodeUnmapped(labels, n_classes, reverse_index) ==
    IF labels.kind = "int" THEN [err |-> "TypeError", out |-> NoMatrix]
    ELSE IF n_classes < 0 THEN [err |-> "RuntimeError", out |-> NoMatrix]
    ELSE LET out == Fill(Zeros(Len(labels.v), n_classes), labels.v, 1)
         IN  IF out = NoMatrix THEN [err |-> "IndexError", out |-> NoMatrix]
             ELSE [err |-> None, out |-> out]

_one_hot_encode(labels, n_classes, reverse_index) ==
    IF labels.kind = "int" THEN [err |-> "TypeError", out |-> NoMatrix]
    ELSE IF n_classes < 0 THEN [err |-> "RuntimeError", out |-> NoMatrix]
    ELSE LET mapped == map_to_outputs(labels, reverse_index).ret
         IN  IF mapped = NoValue THEN [err |-> "TypeError", out |-> NoMatrix]
             ELSE LET out == Fill(Zeros(Len(labels.v), n_classes), mapped.v, 1)
                  IN  IF out = NoMatrix THEN [err |-> "IndexError", out |-> NoMatrix]
                      ELSE [err |-> None, out |-> out]

EncCalls ==
    {[op |-> "encode", labels |-> l, n |-> n, rev |-> r, done |-> FALSE,
      err |-> None, out |-> NoMatrix, ret |-> NoValue, calls |-> 0] :
        l \in LabelArgs, n \in (0 - 1)..MaxClasses, r \in ReverseIndexes}
    \cup
    {[op |-> "map", labels |-> l, n |-> 0, rev |-> r, done |-> FALSE,
      err |-> None, out |-> NoMatrix, ret |-> NoValue, calls |-> 0] :
        l \in LabelArgs, r \in ReverseIndexes}

CallOneHotEncode ==
    /\ enc.op = "encode" /\ ~enc.done
    /\ LET r == _one_hot_encode(enc.labels, enc.n, enc.rev)
       IN  enc' = [enc EXCEPT !.done = TRUE, !.err = r.err, !.out = r.out]
    /\ UNCHANGED <<join, files, wm, hist, dist, layer, fwd>>

CallMapToOutputs ==
    /\ enc.op = "map" /\ ~enc.done
    /\ LET r == map_to_outputs(enc.labels, enc.rev)
       IN  enc' = [enc EXCEPT !.done = TRUE, !.ret = r.ret, !.calls = r.calls]
    /\ UNCHANGED <<join, files, wm, hist, dist, layer, fwd>>

InitEnc ==
    /\ enc \in EncCalls
    /\ join = Idle /\ files = <<>> /\ wm = Idle /\ hist = <<>> /\ dist = Idle
    /\ layer = Idle /\ fwd = Idle

NextEnc == CallOneHotEncode \/ CallMapToOutputs

SpecEnc == InitEnc /\ [][NextEnc]_vars

(***************************************************************************)
(* joinSubsets                                                             *)
(*                                                                         *)
(* A Subset is [dataset, indices]: the dataset it views and the list of    *)
(* the positions it covers.                                                *)
(***************************************************************************)
MaxSubsets == 2
MaxIndices == 2
NumElements == 2

Datasets == {"train", "test"}
IndexLists == UNION {[1..n -> 0..(NumElements - 1)] : n \in 0..MaxIndices}
SubsetLists(dataset) ==
    UNION {[1..n -> {[dataset |-> dataset, indices |-> l] : l \in IndexLists}] :
              n \in 0..MaxSubsets}

\* indices += s.indices, for an s whose indices are already all there
RECURSIVE JoinDistinct(_, _)
JoinDistinct(dataset, subsets) ==
    IF subsets = <<>> THEN [dataset |-> dataset, indices |-> <<>>]
    ELSE LET before == JoinDistinct(dataset, SubSeq(subsets, 1, Len(subsets) - 1))
             s == subsets[Len(subsets)]
             seen == {before.indices[i] : i \in DOMAIN before.indices}
         IN  [before EXCEPT !.indices =
                 @ \o SelectSeq(s.indices, LAMBDA x : x \notin seen)]

\* the loop "for s in subsets: indices += s.indices", then Subset(dataset, indices)
RECURSIVE joinSubsets(_, _)
joinSubsets(dataset, subsets) ==
    IF subsets = <<>> THEN [dataset |-> dataset, indices |-> <<>>]
    ELSE LET before == joinSubsets(dataset, SubSeq(subsets, 1, Len(subsets) - 1))
             s == subsets[Len(subsets)]
         IN  [before EXCEPT !.indices = @ \o s.indices]

JoinCalls ==
    {[dataset |-> d, subsets |-> ss, done |-> FALSE, out |-> [dataset |-> d, indices |-> <<>>]] :
        d \in Datasets, ss \in SubsetLists("train")}

CallJoinSubsets ==
    /\ ~join.done
    /\ join' = [join EXCEPT !.done = TRUE, !.out = joinSubsets(join.dataset, join.subsets)]
    /\ UNCHANGED <<enc, files, wm, hist, dist, layer, fwd>>

InitJoin ==
    /\ join \in JoinCalls
    /\ enc = Idle /\ files = <<>> /\ wm = Idle /\ hist = <<>> /\ dist = Idle
    /\ layer = Idle /\ fwd = Idle

NextJoin == CallJoinSubsets

SpecJoin == InitJoin /\ [][NextJoin]_vars

(***************************************************************************)
(* writeMetrics                                                            *)
(*                                                                         *)
(* A string is the sequence of its characters.  A mapping {key: value} of  *)
(* one entry is [key, val].  The file system maps the names of the files   *)
(* that exist to their contents.                                           *)
(***************************************************************************)
RangeStart == 10
RangeStop == 110
RangeStep == 10
MaxCalls == 2
MaxRows == 2

\* range(start, stop, step), step > 0
RECURSIVE Range(_, _, _)
Range(start, stop, step) ==
    IF start >= stop THEN <<>> ELSE <<start>> \o Range(start + step, stop, step)

ClassesSeen == Range(RangeStart, RangeStop, RangeStep)

Digits == <<"0", "1", "2", "3", "4", "5", "6", "7", "8", "9">>

\* str(n) of an int
RECURSIVE Str(_)
Str(n) ==
    IF n < 0 THEN <<"-">> \o Str(0 - n)
    ELSE IF n < 10 THEN <<Digits[n + 1]>>
    ELSE Str(n \div 10) \o <<Digits[(n % 10) + 1]>>

Methods == {<<"a">>, <<"a", "1">>}
Seeds == {1, 11}

\* accuracies: one entry short of, exactly, and one more than the steps of
\* the range; entry k of family f is the accuracy 100 * f + k.  json tells
\* whether the entries are values json can write (Python floats) or not
\* (tensors, numpy scalars).
AccLens == (Len(ClassesSeen) - 1)..(Len(ClassesSeen) + 1)
Accuracies ==
    {[vals |-> [k \in 1..n |-> 100 * f + k], json |-> TRUE] : n \in AccLens, f \in 0..1}
    \cup {[vals |-> [k \in 1..Len(ClassesSeen) |-> k], json |-> FALSE]}

\* confusion matrices of r rows; entry (i, j) is 10 * i + j
Matrices == {[i \in 1..r |-> [j \in 1..r |-> 10 * i + j]] : r \in 0..MaxRows}

NoData == [accuracies |-> <<>>, cm |-> <<>>]
Partial == [kind |-> "partial", accuracies |-> <<>>, cm |-> <<>>]

\* filename = 'data_{}.json'.format(method + '_' + str(seed))
FileNameUnseparated(method, seed) ==
    <<"d", "a", "t", "a", "_">> \o method \o Str(seed)
        \o <<".", "j", "s", "o", "n">>

FileName(method, seed) ==
    <<"d", "a", "t", "a", "_">> \o method \o <<"_">> \o Str(seed)
        \o <<".", "j", "s", "o", "n">>

\* the first loop: one {classes_seen: accuracies[i]} per step of the range,
\* for accuracies of at least that many entries
RECURSIVE AccuracyEntriesByIndex(_, _)
AccuracyEntriesByIndex(accuracies, k) ==
    IF k = 0 THEN <<>>
    ELSE Append(AccuracyEntriesByIndex(accuracies, k - 1),
                [key |-> k - 1, val |-> accuracies[k]])

RECURSIVE AccuracyEntries(_, _)
AccuracyEntries(accuracies, k) ==
    IF k = 0 THEN <<>>
    ELSE Append(AccuracyEntries(accuracies, k - 1),
                [key |-> ClassesSeen[k], val |-> accuracies[k]])

\* the second loop: one {class_num: confusionMatrixData[i].tolist()} per row
CmEntries(confusionMatrixData) ==
    [i \in 1..Len(confusionMatrixData) |-> [key |-> i - 1, val |-> confusionMatrixData[i]]]

\* json.dump of a list of one-entry mappings: an int key is written as the
\* string of its digits
DumpEntries(entries) ==
    [i \in 1..Len(entries) |-> [key |-> Str(entries[i].key), val |-> entries[i].val]]

JsonDump(data) ==
    [kind |-> "json", accuracies |-> DumpEntries(data.accuracies), cm |-> DumpEntries(data.cm)]

\* open(filename, 'w') and the writes to it
WriteFile(fs, filename, content) ==
    [f \in DOMAIN fs \cup {filename} |-> IF f = filename THEN content ELSE fs[f]]

\* [err, data, files]: the exception raised, if any, the record built and the
\* file system after the call
WriteMetricsOpenFirst(fs, method, seed, accuracies, confusionMatrixData) ==
    LET filename == FileName(method, seed)
    IN  IF Len(accuracies.vals) < Len(ClassesSeen)
        THEN [err |-> "IndexError", data |-> NoData, files |-> WriteFile(fs, filename, Partial)]
        ELSE LET data == [accuracies |-> AccuracyEntries(accuracies.vals, Len(ClassesSeen)),
                          cm |-> CmEntries(confusionMatrixData)]
             IN  IF accuracies.json
                 THEN [err |-> None, data |-> data,
                       files |-> WriteFile(fs, filename, JsonDump(data))]
                 ELSE [err |-> "TypeError", data |-> data,
                       files |-> WriteFile(fs, filename, Partial)]

writeMetrics(fs, method, seed, accuracies, confusionMatrixData) ==
    IF Len(accuracies.vals) < Len(ClassesSeen)
    THEN [err |-> "IndexError", data |-> NoData, files |-> fs]
    ELSE LET data == [accuracies |-> AccuracyEntries(accuracies.vals, Len(ClassesSeen)),
                      cm |-> CmEntries(confusionMatrixData)]
             filename == FileName(method, seed)
         IN  IF accuracies.json
             THEN [err |-> None, data |-> data,
                   files |-> WriteFile(fs, filename, JsonDump(data))]
             ELSE [err |-> "TypeError", data |-> data,
                   files |-> WriteFile(fs, filename, Partial)]

\* what the calls so far did to the file of a (method, seed): nothing yet
\* ("never"), wrote the record of the last successful call ("written"), or
\* broke off in the middle of writing ("partial"); writes counts the
\* successful calls
NeverWritten == [state |-> "never", data |-> NoData, writes |-> 0]

CallWriteMetrics ==
    /\ wm.count < MaxCalls
    /\ \E method \in Methods, seed \in Seeds, accuracies \in Accuracies, cm \in Matrices :
          LET r == writeMetrics(files, method, seed, accuracies, cm)
          IN  /\ files' = r.files
              /\ wm' = [count |-> wm.count + 1, method |-> method, seed |-> seed,
                        accuracies |-> accuracies, cm |-> cm, err |-> r.err, data |-> r.data]
              /\ hist' = [hist EXCEPT ![<<method, seed>>] =
                            IF r.err = "IndexError" THEN @
                            ELSE IF r.err = None
                            THEN [state |-> "written", data |-> r.data, writes |-> @.writes + 1]
                            ELSE [state |-> "partial", data |-> NoData, writes |-> @.writes]]
    /\ UNCHANGED <<enc, join, dist, layer, fwd>>

InitMetrics ==
    /\ files = <<>>
    /\ wm = [count |-> 0, method |-> <<>>, seed |-> 0,
             accuracies |-> [vals |-> <<>>, json |-> TRUE], cm |-> <<>>,
             err |-> None, data |-> NoData]
    /\ hist = [p \in Methods \X Seeds |-> NeverWritten]
    /\ enc = Idle /\ join = Idle /\ dist = Idle /\ layer = Idle /\ fwd = Idle

NextMetrics == CallWriteMetrics

SpecMetrics == InitMetrics /\ [][NextMetrics]_vars

(***************************************************************************)
(* Floating point.  torch computes in binary floating point with round to  *)
(* nearest, ties to even.  The model keeps that arithmetic and bounds the  *)
(* width: a single-precision value has MantBits significant bits (24 in    *)
(* float32), a double-precision one WideBits (53 in float64, 2*24+5).      *)
(* A value is an integer count of units: 2^-FracBits for single precision, *)
(* 2^-WideFrac for double precision.                                       *)
(***************************************************************************)
MantBits == 4
WideBits == 2 * MantBits + 5
FracBits == MantBits + 6
WideFrac == FracBits + (WideBits - MantBits)

RECURSIVE Pow2(_)
Pow2(n) == IF n = 0 THEN 1 ELSE 2 * Pow2(n - 1)

One == Pow2(FracBits)
Abs(x) == IF x < 0 THEN 0 - x ELSE x

\* The number of low bits a magnitude a loses to fit below lim = 2^p, that
\* is, in p significant bits.
RECURSIVE Drop(_, _)
Drop(a, lim) == IF a < lim THEN 0 ELSE 1 + Drop(a \div 2, lim)

\* N/D (N >= 0, D > 0) rounded to the nearest integer, ties to even.
RoundHalfEven(N, D) ==
    LET q == N \div D
        r == N % D
    IN  IF 2 * r < D THEN q
        ELSE IF 2 * r > D THEN q + 1
        ELSE IF q % 2 = 0 THEN q ELSE q + 1

\* N/D units rounded to the nearest value of p significant bits.
Rnd(p, N, D) ==
    LET a == Abs(N)
        e == Drop(a \div D, Pow2(p))
        m == RoundHalfEven(a, D * Pow2(e)) * Pow2(e)
    IN  IF N < 0 THEN 0 - m ELSE m

FAdd(x, y) == Rnd(MantBits, x + y, 1)
FSub(x, y) == Rnd(MantBits, x - y, 1)
FMul(x, y) == Rnd(MantBits, x * y, One)
FDiv(x, y) == Rnd(MantBits, x * One, y)

\* floor of the square root, by bisection
RECURSIVE ISqrt(_, _, _)
ISqrt(M, lo, hi) ==
    IF lo >= hi THEN lo
    ELSE LET mid == (lo + hi + 1) \div 2
         IN  IF mid * mid <= M THEN ISqrt(M, mid, hi) ELSE ISqrt(M, lo, mid - 1)

\* the correctly rounded square root of x units
FSqrt(x) ==
    LET M == x * One
        r == ISqrt(M, 0, 8 * One)
        e == Drop(r, Pow2(MantBits))
        lo == (r \div Pow2(e)) * Pow2(e)
        hi == lo + Pow2(e)
        mid == lo + Pow2(e - 1)
    IN  IF e = 0 THEN (IF M - r * r <= r THEN r ELSE r + 1)
        ELSE IF M < mid * mid THEN lo
        ELSE IF M > mid * mid THEN hi
        ELSE IF (lo \div Pow2(e)) % 2 = 0 THEN lo ELSE hi

\* double precision, on WideFrac units
Widen(x) == x * Pow2(WideFrac - FracBits)
WAdd(x, y) == Rnd(WideBits, x + y, 1)
WDivInt(x, n) == Rnd(WideBits, x, n)
WMulInt(n, x) == Rnd(WideBits, n * x, 1)

(***************************************************************************)
(* L_G_dist_scalar, L_G_dist                                               *)
(***************************************************************************)
Dim == 2
MaxComp == 1
MaxBatch == 2

\* a feature vector with small integer components, in units
Vecs == [1..Dim -> (0 - MaxComp)..MaxComp]
ZeroVec == [i \in 1..Dim |-> 0]
NonZeroVecs == Vecs \ {ZeroVec}
ToFloat(v) == [i \in 1..Dim |-> v[i] * One]
Neg(v) == [i \in 1..Dim |-> 0 - v[i]]

\* torch.norm(x, 2): the square root of the accumulated squares
RECURSIVE SumSquares(_, _)
SumSquares(x, k) == IF k = 0 THEN 0 ELSE FAdd(SumSquares(x, k - 1), FMul(x[k], x[k]))

Norm2(x) == FSqrt(SumSquares(x, Len(x)))

\* x.dot(y): the accumulated products
RECURSIVE Dot(_, _, _)
Dot(x, y, k) == IF k = 0 THEN 0 ELSE FAdd(Dot(x, y, k - 1), FMul(x[k], y[k]))

DistScalarFlipped(feat_old_1d, feat_new_1d) ==
    LET no == Norm2(feat_old_1d)
        nn == Norm2(feat_new_1d)
        o == [i \in 1..Len(feat_old_1d) |-> FDiv(feat_old_1d[i], no)]
        n == [i \in 1..Len(feat_new_1d) |-> FDiv(feat_new_1d[i], nn)]
    IN  FAdd(One, Dot(o, n, Len(o)))

L_G_dist_scalar(feat_old_1d, feat_new_1d) ==
    LET no == Norm2(feat_old_1d)
        nn == Norm2(feat_new_1d)
        o == [i \in 1..Len(feat_old_1d) |-> FDiv(feat_old_1d[i], no)]
        n == [i \in 1..Len(feat_new_1d) |-> FDiv(feat_new_1d[i], nn)]
    IN  FSub(One, Dot(o, n, Len(o)))

\* result.sum() and result.mean() of a float64 tensor
RECURSIVE TensorSum(_, _)
TensorSum(t, k) == IF k = 0 THEN 0 ELSE WAdd(TensorSum(t, k - 1), t[k])

TensorMean(t) == WDivInt(TensorSum(t, Len(t)), Len(t))

\* the loop of L_G_dist: result[i] = L_G_dist_scalar(feat_old[i,:], feat_new[i,:])
RowDistances(feat_old, feat_new) ==
    [i \in 1..Len(feat_old) |-> Widen(L_G_dist_scalar(feat_old[i], feat_new[i]))]

DistSwapped(feat_old, feat_new, reduce) ==
    LET result == RowDistances(feat_old, feat_new)
    IN  IF reduce = "mean" THEN TensorSum(result, Len(result))
        ELSE IF reduce = "sum" THEN TensorMean(result)
        ELSE result

L_G_dist(feat_old, feat_new, reduce) ==
    LET result == RowDistances(feat_old, feat_new)
    IN  IF reduce = "mean" THEN TensorMean(result)
        ELSE IF reduce = "sum" THEN TensorSum(result, Len(result))
        ELSE result

Reduces == {"mean", "sum", "none", "max"}

\* the rows of a batch: a vector of 0/1 components, the first one 1, against
\* itself, its negation or the vector of ones
RowPool == {v \in Vecs : v[1] = 1 /\ \A i \in 1..Dim : v[i] \in 0..1}
AllOnes == [i \in 1..Dim |-> 1]
RowPairs == UNION {{<<v, v>>, <<v, Neg(v)>>, <<v, AllOnes>>} : v \in RowPool}
Batches == UNION {[1..n -> RowPairs] : n \in 1..MaxBatch}

\* The calls to make: Init draws the arguments, the call fills in the result.
DistCalls ==
    {[op |-> "scalar", old |-> <<a>>, new |-> <<b>>, reduce |-> None, done |-> FALSE, out |-> 0] :
        a \in NonZeroVecs, b \in NonZeroVecs}
    \cup
    {[op |-> "dist", old |-> [i \in 1..Len(b) |-> b[i][1]], new |-> [i \in 1..Len(b) |-> b[i][2]],
      reduce |-> r, done |-> FALSE, out |-> 0] : b \in Batches, r \in Reduces}

FloatRows(rows) == [i \in 1..Len(rows) |-> ToFloat(rows[i])]

CallDistScalar ==
    /\ dist.op = "scalar" /\ ~dist.done
    /\ dist' = [dist EXCEPT !.done = TRUE,
                             !.out = L_G_dist_scalar(ToFloat(dist.old[1]), ToFloat(dist.new[1]))]
    /\ UNCHANGED <<enc, join, files, wm, hist, layer, fwd>>

CallDist ==
    /\ dist.op = "dist" /\ ~dist.done
    /\ dist' = [dist EXCEPT !.done = TRUE,
                             !.out = L_G_dist(FloatRows(dist.old), FloatRows(dist.new), dist.reduce)]
    /\ UNCHANGED <<enc, join, files, wm, hist, layer, fwd>>

InitDist ==
    /\ dist \in DistCalls
    /\ enc = Idle /\ join = Idle /\ files = <<>> /\ wm = Idle /\ hist = <<>>
    /\ layer = Idle /\ fwd = Idle

NextDist == CallDistScalar \/ CallDist

SpecDist == InitDist /\ [][NextDist]_vars

(***************************************************************************)
(* CosineNormalizationLayer                                                *)
(*                                                                         *)
(* The layer object: in_features (Dim here) and out_features, the weight   *)
(* matrix, the parameter sigma ([present, val]; a sigma registered as None *)
(* is absent), the sigma argument it was constructed with, and the last    *)
(* operation applied to it.                                                *)
(***************************************************************************)
OutFeatures == 2

NoSigma == [present |-> FALSE, val |-> 0]

\* uniform_(-stdv, stdv) with stdv = 1 / sqrt(in_features): some of the
\* values w it can draw, w * w * in_features <= 1
WeightValues ==
    {w \in {0 - (One \div 2), One \div 4, One \div 2} : w * w * Dim <= One * One}
Weights ==
    {[j \in 1..OutFeatures |-> [i \in 1..Dim |-> IF i = j THEN a ELSE b]] :
        a \in WeightValues, b \in WeightValues}

\* the values an optimizer step can leave in sigma
SigmaValues == {One \div 2, One, 2 * One}

\* F.normalize(x, p=2, dim=1) of one row: x / max(norm, eps)
Normalize(x) ==
    LET n == Norm2(x)
    IN  [i \in 1..Len(x) |-> IF n = 0 THEN 0 ELSE FDiv(x[i], n)]

\* F.linear(F.normalize(input), F.normalize(weight)): entry (i, j) is the dot
\* product of normalized input row i and normalized weight row j
CosineLinear(input, weight) ==
    [i \in 1..Len(input) |->
        [j \in 1..Len(weight) |-> Dot(Normalize(input[i]), Normalize(weight[j]), Dim)]]

ResetKeepingSigma(l, w) == [l EXCEPT !.weight = w, !.last = "reset"]

\* reset_parameters, with w the weights uniform_ draws
reset_parameters(l, w) ==
    [l EXCEPT !.weight = w,
              !.sigma = IF l.sigma.present THEN [present |-> TRUE, val |-> One] ELSE @,
              !.last = "reset"]

\* __init__: the parameters are allocated (an enabled sigma holds whatever
\* the memory held, u; a disabled one is registered as None), then
\* reset_parameters fills them
NewLayer(sigma, u, w) ==
    [reset_parameters([weight |-> w,
                       sigma |-> IF sigma THEN [present |-> TRUE, val |-> u] ELSE NoSigma,
                       arg |-> sigma, last |-> "init"], w)
        EXCEPT !.last = "init"]

forward(l, input) ==
    LET out == CosineLinear(input, l.weight)
    IN  IF l.sigma.present
        THEN [i \in 1..Len(out) |-> [j \in 1..Len(out[i]) |-> FMul(l.sigma.val, out[i][j])]]
        ELSE out

FwdInputs == {<<v>> : v \in RowPool} \cup {<<v, Neg(v)>> : v \in RowPool}

NoForward == [op |-> "idle", input |-> <<>>, out |-> <<>>]

\* (an output computed from the parameters as they were is not kept)
ResetParameters ==
    /\ \E w \in Weights : layer' = reset_parameters(layer, w)
    /\ fwd' = NoForward
    /\ UNCHANGED <<enc, join, files, wm, hist, dist>>

\* a step of the optimizer the layer's parameters were given to
OptimizerStep ==
    /\ \E w \in Weights, sv \in SigmaValues :
          layer' = [layer EXCEPT !.weight = w,
                                 !.sigma = IF @.present THEN [@ EXCEPT !.val = sv] ELSE @,
                                 !.last = "step"]
    /\ fwd' = NoForward
    /\ UNCHANGED <<enc, join, files, wm, hist, dist>>

Forward ==
    /\ \E input \in FwdInputs :
          fwd' = [op |-> "forward", input |-> input,
                  out |-> forward(layer, FloatRows(input))]
    /\ layer' = [layer EXCEPT !.last = "forward"]
    /\ UNCHANGED <<enc, join, files, wm, hist, dist>>

InitLayer ==
    /\ \E sigma \in BOOLEAN, u \in SigmaValues \cup {0}, w \in Weights :
          layer = NewLayer(sigma, u, w)
    /\ fwd = NoForward
    /\ enc = Idle /\ join = Idle /\ files = <<>> /\ wm = Idle /\ hist = <<>> /\ dist = Idle

NextLayer == ResetParameters \/ OptimizerStep \/ Forward

SpecLayer == InitLayer /\ [][NextLayer]_vars

(***************************************************************************)
(* Claims on the encoding helpers                                          *)
(***************************************************************************)
EncodeDone == enc.op = "encode" /\ enc.done
MapDone == enc.op = "map" /\ enc.done

\* the mapped label of position i of the labels of the call: the label
\* itself without a reverse_index, reverse_index.getNodes of it otherwise
Mapped(i) ==
    IF enc.rev.present THEN enc.rev.nodes[enc.labels.v[i]] ELSE enc.labels.v[i]

Positions == 1..Len(enc.labels.v)

\* a batch of labels: a tensor, or a list when there is no reverse_index
\* (getNodes takes tensors only)
IsBatch ==
    \/ enc.labels.kind = "tensor"
    \/ enc.labels.kind = "list" /\ ~enc.rev.present

EncodeFailed == enc.err # None /\ enc.out = NoMatrix

Ones(row) == Cardinality({j \in DOMAIN row : row[j] = 1})

\* C1: for a batch of b labels whose mapped labels all lie in [0, n_classes),
\* _one_hot_encode returns the b x n_classes matrix whose entry (i, j) is 1
\* exactly when j is the mapped label of row i; every row holds one 1.
C1_OneHot ==
    (EncodeDone /\ IsBatch /\ enc.n >= 0
       /\ \A i \in Positions : Mapped(i) >= 0 /\ Mapped(i) < enc.n) =>
        /\ enc.err = None
        /\ enc.out.rows = Len(enc.labels.v) /\ enc.out.cols = enc.n
        /\ DOMAIN enc.out.m = Positions
        /\ \A i \in Positions :
              /\ DOMAIN enc.out.m[i] = 1..enc.n
              /\ \A j \in 0..(enc.n - 1) :
                    enc.out.m[i][j + 1] = (IF j = Mapped(i) THEN 1 ELSE 0)
              /\ Ones(enc.out.m[i]) = 1

\* a remapped batch of two different in-range labels has been encoded
C1_Witness ==
    /\ EncodeDone /\ enc.labels.kind = "tensor" /\ enc.rev.present
    /\ Len(enc.labels.v) = 2 /\ enc.n = 2
    /\ Mapped(1) = 0 /\ Mapped(2) = 1 /\ enc.labels.v[1] # 0
    /\ enc.err = None /\ enc.out.m = <<(<<1, 0>>), (<<0, 1>>)>>

\* C2 as stated: _one_hot_encode fails whenever a mapped label lies outside
\* [0, n_classes).
C2_FailsOutsideRange ==
    (EncodeDone /\ \E i \in Positions : Mapped(i) < 0 \/ Mapped(i) >= enc.n) =>
        EncodeFailed

\* C2 as amended: _one_hot_encode fails whenever a mapped label is
\* >= n_classes or < -n_classes; a batch whose mapped labels all lie in
\* [-n_classes, n_classes) is encoded, a negative label l setting column
\* n_classes + l.
C2_FailsOutsideIndexRange ==
    /\ (EncodeDone /\ \E i \in Positions : Mapped(i) < 0 - enc.n \/ Mapped(i) >= enc.n) =>
           EncodeFailed
    /\ (EncodeDone /\ IsBatch /\ enc.n >= 0
          /\ \A i \in Positions : Mapped(i) >= 0 - enc.n /\ Mapped(i) < enc.n) =>
           /\ enc.err = None
           /\ \A i \in Positions :
                 /\ enc.out.m[i][(IF Mapped(i) < 0 THEN Mapped(i) + enc.n ELSE Mapped(i)) + 1] = 1
                 /\ Ones(enc.out.m[i]) = 1

\* a tensor whose second mapped label is too large has made the call fail
C2_Witness ==
    /\ EncodeDone /\ enc.labels.kind = "tensor" /\ Len(enc.labels.v) = 2 /\ enc.n = 2
    /\ Mapped(1) = 1 /\ Mapped(2) = 2
    /\ enc.err = "IndexError" /\ enc.out = NoMatrix

\* C6: without a reverse_index map_to_outputs returns its labels argument as
\* it is, an int or a batch, and calls no collaborator.
C6_Identity ==
    (MapDone /\ ~enc.rev.present) => (enc.ret = enc.labels /\ enc.calls = 0)

\* an int has gone through map_to_outputs without a reverse_index
C6_Witness ==
    /\ MapDone /\ ~enc.rev.present /\ enc.labels.kind = "int"
    /\ enc.ret = enc.labels /\ enc.calls = 0

(***************************************************************************)
(* Claims on joinSubsets                                                   *)
(***************************************************************************)
RECURSIVE TotalLen(_, _)
TotalLen(subsets, k) == IF k = 0 THEN 0 ELSE TotalLen(subsets, k - 1) + Len(subsets[k].indices)

Count(x, l) == Cardinality({i \in DOMAIN l : l[i] = x})

RECURSIVE TotalCount(_, _, _)
TotalCount(x, subsets, k) ==
    IF k = 0 THEN 0 ELSE TotalCount(x, subsets, k - 1) + Count(x, subsets[k].indices)

\* C3: joinSubsets returns a subset over the dataset given whose index list
\* is the subsets' index lists one after the other, in input order: entry p
\* of subset k sits at position (total length of subsets 1..k-1) + p, the
\* length is the sum of the lengths, and every index occurs as often as in
\* all the subsets together.
C3_Concatenation ==
    join.done =>
        /\ join.out.dataset = join.dataset
        /\ Len(join.out.indices) = TotalLen(join.subsets, Len(join.subsets))
        /\ \A k \in DOMAIN join.subsets : \A p \in DOMAIN join.subsets[k].indices :
              join.out.indices[TotalLen(join.subsets, k - 1) + p] = join.subsets[k].indices[p]
        /\ \A x \in 0..(NumElements - 1) :
              Count(x, join.out.indices) = TotalCount(x, join.subsets, Len(join.subsets))

\* two subsets that share an index have been joined, over another dataset
\* than theirs, and the index is there twice
C3_Witness ==
    /\ join.done /\ Len(join.subsets) = 2
    /\ join.subsets[1].indices = <<1, 0>> /\ join.subsets[2].indices = <<1>>
    /\ join.dataset # join.subsets[1].dataset
    /\ join.out.indices = <<1, 0, 1>>

(***************************************************************************)
(* Claims on writeMetrics                                                  *)
(***************************************************************************)
Called == wm.count > 0

\* C4: for accuracies of at least 10 entries and a confusion matrix of r
\* rows, the record writeMetrics builds for json.dump has 10 "accuracies"
\* entries, entry k (k = 0..9) mapping the class count 10*(k+1) to
\* accuracies[k], and r "cm" entries, entry i mapping i to row i.
C4_Record ==
    (Called /\ Len(wm.accuracies.vals) >= 10) =>
        /\ Len(wm.data.accuracies) = 10
        /\ \A k \in 0..9 :
              wm.data.accuracies[k + 1] = [key |-> 10 * (k + 1), val |-> wm.accuracies.vals[k + 1]]
        /\ Len(wm.data.cm) = Len(wm.cm)
        /\ \A i \in 0..(Len(wm.cm) - 1) :
              wm.data.cm[i + 1] = [key |-> i, val |-> wm.cm[i + 1]]

\* a call with 11 accuracies and a 2 x 2 confusion matrix has written its file
C4_Witness ==
    /\ Called /\ wm.err = None
    /\ Len(wm.accuracies.vals) = 11 /\ Len(wm.cm) = 2
    /\ files[FileName(wm.method, wm.seed)].kind = "json"

\* C5: the file data_{method}_{seed}.json holds the record of the most
\* recent successful call made with that method and seed, as json.dump
\* writes it, and no call made with another method or seed has touched it:
\* it does not exist before the first such call.  (A call that broke off
\* while writing leaves the file partly written.)
C5_FilePerMethodAndSeed ==
    \A p \in Methods \X Seeds :
        LET filename == <<"d", "a", "t", "a", "_">> \o p[1] \o <<"_">> \o Str(p[2])
                            \o <<".", "j", "s", "o", "n">>
        IN  /\ hist[p].state = "never" => filename \notin DOMAIN files
            /\ hist[p].state = "written" =>
                  /\ filename \in DOMAIN files
                  /\ files[filename] = JsonDump(hist[p].data)
            /\ hist[p].state = "partial" =>
                  /\ filename \in DOMAIN files
                  /\ files[filename] = Partial

\* a second successful call with the same method and seed has replaced the
\* record of the first
C5_Witness ==
    /\ Called /\ wm.err = None
    /\ hist[<<wm.method, wm.seed>>].writes = 2
    /\ files[FileName(wm.method, wm.seed)] = JsonDump(wm.data)
    /\ Cardinality(DOMAIN files) = 1

\* C10: a call with fewer than 10 accuracies raises IndexError and leaves
\* the file system as it was (no file created, none changed); a call with
\* more than 10 accuracies (of values json can write) succeeds, and its file
\* holds the first 10 only.
C10_ShortAndLong ==
    [][LET n == Len(wm'.accuracies.vals)
           filename == FileName(wm'.method, wm'.seed)
       IN  /\ n < 10 => (wm'.err = "IndexError" /\ files' = files)
           /\ (n > 10 /\ wm'.accuracies.json) =>
                 /\ wm'.err = None
                 /\ Len(files'[filename].accuracies) = 10
                 /\ \A k \in 1..10 : files'[filename].accuracies[k].val = wm'.accuracies.vals[k]
                 /\ \A k \in 1..10 : \A j \in 11..n :
                       files'[filename].accuracies[k].val # wm'.accuracies.vals[j]
      ]_vars

\* a call with 9 accuracies has failed and the file written before is still
\* the one of the earlier call
C10_Witness ==
    /\ wm.count = 2 /\ wm.err = "IndexError" /\ Len(wm.accuracies.vals) = 9
    /\ hist[<<wm.method, wm.seed>>].state = "written"
    /\ files[FileName(wm.method, wm.seed)] = JsonDump(hist[<<wm.method, wm.seed>>].data)

(***************************************************************************)
(* Claims on the layer                                                     *)
(***************************************************************************)
\* the cosine similarity of input row i and weight row j of the last forward
Cosine(i, j) ==
    Dot(Normalize(ToFloat(fwd.input[i])), Normalize(layer.weight[j]), Dim)

\* C9: the layer has a sigma exactly when it was constructed with one; an
\* enabled sigma is 1 right after construction and right after each
\* reset_parameters, and forward returns sigma times the cosine
\* similarities; a disabled sigma is absent after construction and after
\* each reset_parameters, and forward returns the cosine similarities.
C9_Sigma ==
    /\ layer.sigma.present = layer.arg
    /\ ~layer.arg => layer.sigma = NoSigma
    /\ (layer.arg /\ layer.last \in {"init", "reset"}) => layer.sigma.val = One
    /\ layer.last = "forward" =>
          /\ Len(fwd.out) = Len(fwd.input)
          /\ \A i \in 1..Len(fwd.input) :
                /\ Len(fwd.out[i]) = OutFeatures
                /\ \A j \in 1..OutFeatures :
                      fwd.out[i][j] = IF layer.arg THEN FMul(layer.sigma.val, Cosine(i, j))
                                      ELSE Cosine(i, j)

\* a layer whose sigma an optimizer step has moved to 2 has computed a
\* forward, twice the cosine similarities
C9_Witness ==
    /\ layer.arg /\ layer.last = "forward" /\ layer.sigma.val = 2 * One
    /\ fwd.op = "forward"
    /\ \E i \in 1..Len(fwd.input) : \E j \in 1..OutFeatures :
          fwd.out[i][j] = 2 * Cosine(i, j) /\ fwd.out[i][j] # 0

(***************************************************************************)
(* Claims on the distance loss                                             *)
(***************************************************************************)
ScalarDone == dist.op = "scalar" /\ dist.done
DistDone == dist.op = "dist" /\ dist.done

\* the per-row distances d of the batch of the call, as doubles
RowD == [i \in 1..Len(dist.old) |->
            Widen(L_G_dist_scalar(ToFloat(dist.old[i]), ToFloat(dist.new[i])))]

\* the sum of a sequence of numbers, without rounding
RECURSIVE ExactSum(_, _)
ExactSum(d, k) == IF k = 0 THEN 0 ELSE ExactSum(d, k - 1) + d[k]

AllEqual(d) == \A i, j \in DOMAIN d : d[i] = d[j]

\* C7: L_G_dist returns the mean of the per-row distances d for "mean" (the
\* double nearest to their sum over n), their sum for "sum", and the vector d
\* itself for every other reduce value; when all d[i] are equal, the "sum"
\* result is n times the "mean" result.
C7_Reduce ==
    DistDone =>
        LET n == Len(dist.old)
            d == RowD
            fo == FloatRows(dist.old)
            fn == FloatRows(dist.new)
        IN  /\ dist.reduce = "mean" => dist.out = Rnd(WideBits, ExactSum(d, n), n)
            /\ dist.reduce = "sum" => dist.out = ExactSum(d, n)
            /\ dist.reduce \notin {"mean", "sum"} => dist.out = d
            /\ AllEqual(d) =>
                  L_G_dist(fo, fn, "sum") = WMulInt(n, L_G_dist(fo, fn, "mean"))

\* a "sum" over two rows of equal, nonzero distance has been computed
C7_Witness ==
    /\ DistDone /\ dist.reduce = "sum" /\ Len(dist.old) = 2
    /\ AllEqual(RowD) /\ RowD[1] > 0
    /\ dist.out = 2 * RowD[1]

\* the rounding tolerance of a distance: Dim + 2 units in the last place of
\* a value just below 1
Tol == (Dim + 2) * Pow2(FracBits - MantBits)

=============================================================================
